---- MODULE Spec2Model ----
(***************************************************************************)
(* Conway's Game of Life as implemented in src/main.cpp: the Grid (flat    *)
(* array of statuses with its index/coordinate arithmetic and neighbour    *)
(* enumeration), the Neighborhood view, and PlayStrategy (the transition   *)
(* rule and its application to a whole grid).                              *)
(*                                                                         *)
(* A std::array<int,2> is a pair <<c0, c1>>, so the C++ coord[0], coord[1] *)
(* are coord[1], coord[2] here.  A std::vector is a sequence in push_back  *)
(* order.  The int array m_contents is a function on 0 .. m_max-1.         *)
(***************************************************************************)
EXTENDS Integers, Sequences, FiniteSets

VARIABLES
    grid,   \* the Grid object owned by Game: m_width, m_height, m_max, m_contents
    call    \* the most recent call on the grid: operation, argument, result

vars == <<grid, call>>

(***************************************************************************)
(* Bounds of the model.                                                    *)
(***************************************************************************)
\* Grids of every shape width x height with width * height <= MaxCells.
MaxCells == 9
\* The same, for the runs that also pass coordinates outside the grid.
MaxCellsUnchecked == 6
\* Side of the square grid the blinker scenario runs on.
BlinkerSide == 5

(***************************************************************************)
(* class Cell                                                              *)
(***************************************************************************)
Cell(val, xy) == [m_status |-> val, m_location |-> xy]

is_alive(cell) == cell.m_status # 0

coord(cell) == cell.m_location

(***************************************************************************)
(* class Neighborhood                                                      *)
(***************************************************************************)
Neighborhood(cell, neigh) == [m_cell |-> cell, m_neighbors |-> neigh]

cell_status(hood) == is_alive(hood.m_cell)

cell_location(hood) == coord(hood.m_cell)

\* count_alive_neighbors without the is_alive test.
count_all_neighbors(hood) == Len(hood.m_neighbors)

count_alive_neighbors(hood) == Len(SelectSeq(hood.m_neighbors, is_alive))

(***************************************************************************)
(* class Grid                                                              *)
(***************************************************************************)
m_neighbor_offsets ==
    << <<-1, -1>>, <<0, -1>>, <<1, -1>>,
       <<-1, 0>>, <<1, 0>>,
       <<-1, 1>>, <<0, 1>>, <<1, 1>> >>

\* Grid(width, height): every outcome of the constructor, one per result of
\* the width * height draws of m_distribution(0, 1).
Grid(width, height) ==
    { [m_width |-> width, m_height |-> height, m_max |-> width * height,
       m_contents |-> c] : c \in [0 .. (width * height - 1) -> {0, 1}] }

to_2d(g, idx) == << idx \div g.m_height, idx % g.m_height >>

\* to_1d multiplying by m_width.
to_1d_by_width(g, xy) == xy[2] + (xy[1] * g.m_width)

to_1d(g, xy) == xy[2] + (xy[1] * g.m_height)

value_at(g, xy) == g.m_contents[to_1d(g, xy)]

\* neighbors with the loop stopping one offset short (i < 7).
neighbors_seven(g, idx) ==
    LET this_coord == to_2d(g, idx)
        \* neighbor_coord of loop iteration i
        neighbor_coord == [i \in 1 .. (Len(m_neighbor_offsets) - 1) |->
                              << this_coord[1] + m_neighbor_offsets[i][1],
                                 this_coord[2] + m_neighbor_offsets[i][2] >>]
        in_bounds(nc) == /\ -1 < nc[1] /\ nc[1] < g.m_width
                         /\ -1 < nc[2] /\ nc[2] < g.m_height
        \* the iterations whose push_back runs, in loop order
        pushed == SelectSeq(neighbor_coord, in_bounds)
    IN  [k \in 1 .. Len(pushed) |-> Cell(value_at(g, pushed[k]), pushed[k])]

\* neighbors with the lower bounds checked as 0 < instead of -1 <.
neighbors_positive(g, idx) ==
    LET this_coord == to_2d(g, idx)
        \* neighbor_coord of loop iteration i
        neighbor_coord == [i \in 1 .. Len(m_neighbor_offsets) |->
                              << this_coord[1] + m_neighbor_offsets[i][1],
                                 this_coord[2] + m_neighbor_offsets[i][2] >>]
        in_bounds(nc) == /\ 0 < nc[1] /\ nc[1] < g.m_width
                         /\ 0 < nc[2] /\ nc[2] < g.m_height
        \* the iterations whose push_back runs, in loop order
        pushed == SelectSeq(neighbor_coord, in_bounds)
    IN  [k \in 1 .. Len(pushed) |-> Cell(value_at(g, pushed[k]), pushed[k])]

neighbors(g, idx) ==
    LET this_coord == to_2d(g, idx)
        \* neighbor_coord of loop iteration i
        neighbor_coord == [i \in 1 .. Len(m_neighbor_offsets) |->
                              << this_coord[1] + m_neighbor_offsets[i][1],
                                 this_coord[2] + m_neighbor_offsets[i][2] >>]
        in_bounds(nc) == /\ -1 < nc[1] /\ nc[1] < g.m_width
                         /\ -1 < nc[2] /\ nc[2] < g.m_height
        \* the iterations whose push_back runs, in loop order
        pushed == SelectSeq(neighbor_coord, in_bounds)
    IN  [k \in 1 .. Len(pushed) |-> Cell(value_at(g, pushed[k]), pushed[k])]

neighborhoods(g) ==
    [k \in 1 .. g.m_max |->
        LET i == k - 1
        IN  Neighborhood(Cell(g.m_contents[i], to_2d(g, i)), neighbors(g, i))]

\* activate storing 0 (the body of deactivate).
activate_clears(g, xy) == [g EXCEPT !.m_contents[to_1d(g, xy)] = 0]

\* activate with the two axes swapped in the index.
activate_swapped_axes(g, xy) == [g EXCEPT !.m_contents[xy[1] + (xy[2] * g.m_height)] = 1]

activate(g, xy) == [g EXCEPT !.m_contents[to_1d(g, xy)] = 1]

deactivate(g, xy) == [g EXCEPT !.m_contents[to_1d(g, xy)] = 0]

(***************************************************************************)
(* class PlayStrategy                                                      *)
(***************************************************************************)
\* cell_lives with 3 <= in place of 3 <.
cell_lives_off_by_one(cell_is_alive, living_neighbor_count) ==
    IF living_neighbor_count < 2 \/ 3 <= living_neighbor_count THEN FALSE
    ELSE IF cell_is_alive THEN TRUE
    ELSE IF living_neighbor_count = 3 THEN TRUE
    ELSE FALSE

cell_lives(cell_is_alive, living_neighbor_count) ==
    IF living_neighbor_count < 2 \/ 3 < living_neighbor_count THEN FALSE
    ELSE IF cell_is_alive THEN TRUE
    ELSE IF living_neighbor_count = 3 THEN TRUE
    ELSE FALSE

\* applyTo without the snapshot: each cell's neighbourhood is read from the
\* grid as already updated for the cells before it.
applyTo_in_place(g) ==
    LET RECURSIVE loop(_, _)
        loop(k, cur) ==
            IF k > g.m_max THEN cur
            ELSE LET hood == neighborhoods(cur)[k]
                 IN  loop(k + 1,
                          IF cell_lives(cell_status(hood), count_alive_neighbors(hood))
                          THEN activate(cur, cell_location(hood))
                          ELSE deactivate(cur, cell_location(hood)))
    IN  loop(1, g)

\* applyTo with the activate and deactivate branches exchanged.
applyTo_swapped(g) ==
    LET hoods == neighborhoods(g)
        RECURSIVE loop(_, _)
        loop(k, cur) ==
            IF k > Len(hoods) THEN cur
            ELSE loop(k + 1,
                      IF cell_lives(cell_status(hoods[k]), count_alive_neighbors(hoods[k]))
                      THEN deactivate(cur, cell_location(hoods[k]))
                      ELSE activate(cur, cell_location(hoods[k])))
    IN  loop(1, g)

applyTo(g) ==
    LET hoods == neighborhoods(g)
        RECURSIVE loop(_, _)
        loop(k, cur) ==
            IF k > Len(hoods) THEN cur
            ELSE loop(k + 1,
                      IF cell_lives(cell_status(hoods[k]), count_alive_neighbors(hoods[k]))
                      THEN activate(cur, cell_location(hoods[k]))
                      ELSE deactivate(cur, cell_location(hoods[k])))
    IN  loop(1, g)

(***************************************************************************)
(* The calls on the grid.  call records the most recent one: its name, its *)
(* coordinate argument, what it returned and how it ended.                 *)
(***************************************************************************)
NoCoord == <<>>

Called(op, xy, ret, outcome) ==
    [op |-> op, coord |-> xy, ret |-> ret, outcome |-> outcome]

\* The process is still running (an earlier call has not brought it down).
Running == call.outcome # "fault"

\* The coordinates of the grid's cells.
Coords(g) == (0 .. g.m_width - 1) \X (0 .. g.m_height - 1)

\* Coordinates up to one step outside the grid on every side.
AnyCoords(g) == (-1 .. g.m_width) \X (-1 .. g.m_height)

InArray(g, idx) == 0 <= idx /\ idx < g.m_max

\* Game's constructor: new Grid(grid_width, grid_height), of at most cells cells.
Construct(cells) ==
    /\ \E width \in 1 .. cells, height \in 1 .. cells :
          /\ width * height <= cells
          /\ grid \in Grid(width, height)
    /\ call = Called("construct", NoCoord, <<>>, "ok")

Init == Construct(MaxCells)

\* Grid::activate with the store landing inside m_contents.
Activate(c) ==
    /\ Running
    /\ InArray(grid, to_1d(grid, c))
    /\ grid' = activate(grid, c)
    /\ call' = Called("activate", c, <<>>, "ok")

\* Grid::deactivate with the store landing inside m_contents.
Deactivate(c) ==
    /\ Running
    /\ InArray(grid, to_1d(grid, c))
    /\ grid' = deactivate(grid, c)
    /\ call' = Called("deactivate", c, <<>>, "ok")

\* Grid::neighborhoods
Neighborhoods ==
    /\ Running
    /\ call' = Called("neighborhoods", NoCoord, neighborhoods(grid), "ok")
    /\ UNCHANGED grid

\* Game::play_round -> Player::play -> PlayStrategy::applyTo
ApplyTo ==
    /\ Running
    /\ grid' = applyTo(grid)
    /\ call' = Called("applyTo", NoCoord, <<>>, "ok")

Next ==
    \/ \E c \in Coords(grid) : Activate(c)
    \/ \E c \in Coords(grid) : Deactivate(c)
    \/ Neighborhoods
    \/ ApplyTo

Spec == Init /\ [][Next]_vars

(***************************************************************************)
(* Calls with a coordinate the caller did not keep inside the grid.  The   *)
(* code computes to_1d(coord) and indexes m_contents with it unchecked.    *)
(* When the index is still inside the array, Activate, Deactivate and      *)
(* ValueAt above and below apply.  When it is not, the access is undefined *)
(* behaviour: the model lets it either miss the cells (the cells keep      *)
(* their values; a read yields some int) or bring the process down.        *)
(***************************************************************************)
UndefinedOutcomes == {"stray", "fault"}

StrayValues == {-1, 0, 1}

\* Grid::activate with the store landing outside m_contents.
ActivateOutside(c) ==
    /\ Running
    /\ ~InArray(grid, to_1d(grid, c))
    /\ \E outcome \in UndefinedOutcomes :
          call' = Called("activate", c, <<>>, outcome)
    /\ UNCHANGED grid

\* Grid::deactivate with the store landing outside m_contents.
DeactivateOutside(c) ==
    /\ Running
    /\ ~InArray(grid, to_1d(grid, c))
    /\ \E outcome \in UndefinedOutcomes :
          call' = Called("deactivate", c, <<>>, outcome)
    /\ UNCHANGED grid

\* Grid::value_at with the load landing inside m_contents.
ValueAt(c) ==
    /\ Running
    /\ InArray(grid, to_1d(grid, c))
    /\ call' = Called("value_at", c, value_at(grid, c), "ok")
    /\ UNCHANGED grid

\* Grid::value_at with the load landing outside m_contents.
ValueAtOutside(c) ==
    /\ Running
    /\ ~InArray(grid, to_1d(grid, c))
    /\ \/ \E v \in StrayValues : call' = Called("value_at", c, v, "stray")
       \/ call' = Called("value_at", c, <<>>, "fault")
    /\ UNCHANGED grid

NextUnchecked ==
    \/ \E c \in AnyCoords(grid) : Activate(c)
    \/ \E c \in AnyCoords(grid) : Deactivate(c)
    \/ \E c \in AnyCoords(grid) : ValueAt(c)
    \/ \E c \in AnyCoords(grid) : ActivateOutside(c)
    \/ \E c \in AnyCoords(grid) : DeactivateOutside(c)
    \/ \E c \in AnyCoords(grid) : ValueAtOutside(c)

InitUnchecked == Construct(MaxCellsUnchecked)

SpecUnchecked == InitUnchecked /\ [][NextUnchecked]_vars

(***************************************************************************)
(* The blinker scenario: a BlinkerSide x BlinkerSide grid whose live cells *)
(* all lie in the block of coordinates 1..3 x 1..3, played round by round. *)
(***************************************************************************)
BlinkerBlock == (1 .. 3) \X (1 .. 3)

\* The grid of the given side whose live cells are exactly those at alive.
Pattern(side, alive) ==
    [m_width |-> side, m_height |-> side, m_max |-> side * side,
     m_contents |-> [i \in 0 .. (side * side - 1) |->
                       IF << i \div side, i % side >> \in alive THEN 1 ELSE 0]]

InitBlinker ==
    /\ \E alive \in SUBSET BlinkerBlock : grid = Pattern(BlinkerSide, alive)
    /\ call = Called("construct", NoCoord, <<>>, "ok")

NextBlinker == ApplyTo

SpecBlinker == InitBlinker /\ [][NextBlinker]_vars

(***************************************************************************)
(* What the properties below are stated with.  None of it uses the         *)
(* operators above: coordinates, indices and the rule are written out.     *)
(***************************************************************************)
Abs(n) == IF n < 0 THEN -n ELSE n

\* The eight steps to a neighbouring coordinate.
Steps == ({-1, 0, 1} \X {-1, 0, 1}) \ {<<0, 0>>}

\* Row-major-by-height index of coordinate xy: second + first * height.
IndexOf(g, xy) == xy[2] + xy[1] * g.m_height

\* Coordinate of index i: first = i div height, second = i mod height.
CoordOf(g, i) == << i \div g.m_height, i % g.m_height >>

\* The coordinates next to xy that lie inside the grid.
Adjacent(g, xy) ==
    { n \in Coords(g) : n # xy /\ Abs(n[1] - xy[1]) <= 1 /\ Abs(n[2] - xy[2]) <= 1 }

\* Number of live cells next to the cell of index i.
AliveAround(g, i) ==
    Cardinality({ n \in Adjacent(g, CoordOf(g, i)) : g.m_contents[IndexOf(g, n)] = 1 })

\* Conway's rule: survive on 2 or 3, be born on 3.
Lives(alive, n) == (alive /\ n \in {2, 3}) \/ (~alive /\ n = 3)

SameShape(g1, g2) ==
    /\ g1.m_width = g2.m_width
    /\ g1.m_height = g2.m_height
    /\ g1.m_max = g2.m_max
    /\ DOMAIN g1.m_contents = DOMAIN g2.m_contents

AllDead(g) == \A i \in DOMAIN g.m_contents : g.m_contents[i] = 0

\* 2 for a corner cell, 1 for an edge (non-corner) cell, 0 for an interior cell.
ExtremeAxes(g, xy) ==
    (IF xy[1] \in {0, g.m_width - 1} THEN 1 ELSE 0)
    + (IF xy[2] \in {0, g.m_height - 1} THEN 1 ELSE 0)

CountFor(extreme) == CASE extreme = 2 -> 3 [] extreme = 1 -> 5 [] OTHER -> 8

\* The query result hoods shows the cell at xy with status v: as the centre
\* of its own neighbourhood and in the neighbour list of every adjacent cell.
Reports(hoods, g, xy, v) ==
    /\ hoods[IndexOf(g, xy) + 1].m_cell = [m_status |-> v, m_location |-> xy]
    /\ \A n \in Adjacent(g, xy) :
          \E j \in DOMAIN hoods[IndexOf(g, n) + 1].m_neighbors :
             hoods[IndexOf(g, n) + 1].m_neighbors[j] = [m_status |-> v, m_location |-> xy]
    /\ \A k \in DOMAIN hoods : \A j \in DOMAIN hoods[k].m_neighbors :
          hoods[k].m_neighbors[j].m_location = xy => hoods[k].m_neighbors[j].m_status = v

(***************************************************************************)
(* C1                                                                      *)
(***************************************************************************)
\* C1: one applyTo leaves every cell with the rule's verdict on that cell's
\* status and live-neighbour count as they were before the call; the grid's
\* shape is kept.  No verdict depends on a cell already rewritten.
C1_ApplyToReadsPreviousGeneration ==
    [][ call'.op = "applyTo" =>
          /\ SameShape(grid', grid)
          /\ \A i \in 0 .. (grid.m_max - 1) :
                grid'.m_contents[i] =
                    IF Lives(grid.m_contents[i] = 1, AliveAround(grid, i)) THEN 1 ELSE 0
      ]_vars

\* A 3 x 3 grid holding the blinker's other phase after an applyTo: a result
\* that an update reading rewritten cells does not produce.
C1_Witness ==
    /\ call.op = "applyTo"
    /\ grid = Pattern(3, {<<0, 1>>, <<1, 1>>, <<2, 1>>})

(***************************************************************************)
(* C2                                                                      *)
(***************************************************************************)
\* C2: on every neighbourhood a query returns, the live-neighbour count is
\* in 0..8 and cell_lives of the centre's status and that count is a boolean,
\* TRUE exactly when (alive and count is 2 or 3) or (dead and count is 3);
\* and so it is on each of the 18 inputs {TRUE, FALSE} x 0..8.
C2_CellLivesTable ==
    call.op = "neighborhoods" =>
        /\ \A k \in DOMAIN call.ret :
              LET alive == cell_status(call.ret[k])
                  n == count_alive_neighbors(call.ret[k])
              IN  /\ n \in 0 .. 8
                  /\ cell_lives(alive, n) \in BOOLEAN
                  /\ cell_lives(alive, n) <=> Lives(alive, n)
        /\ \A alive \in BOOLEAN, n \in 0 .. 8 :
              /\ cell_lives(alive, n) \in BOOLEAN
              /\ cell_lives(alive, n) <=> Lives(alive, n)

\* A query result holding a live cell with 8 live neighbours (it dies) and
\* a live cell with exactly 3 (it survives).
C2_Witness ==
    /\ call.op = "neighborhoods"
    /\ \E k \in DOMAIN call.ret :
          cell_status(call.ret[k]) /\ count_alive_neighbors(call.ret[k]) = 8
    /\ \E k \in DOMAIN call.ret :
          cell_status(call.ret[k]) /\ count_alive_neighbors(call.ret[k]) = 3

(***************************************************************************)
(* C3                                                                      *)
(***************************************************************************)
\* The query returns one neighbourhood per index, in index order.
OnePerIndex ==
    /\ DOMAIN call.ret = 1 .. (grid.m_width * grid.m_height)
    /\ \A k \in DOMAIN call.ret :
          call.ret[k].m_cell =
              [m_status |-> grid.m_contents[k - 1], m_location |-> CoordOf(grid, k - 1)]

\* Corner cells have 3 neighbours, edge cells 5, interior cells 8.
ThreeFiveEight ==
    \A k \in DOMAIN call.ret :
        Len(call.ret[k].m_neighbors) = CountFor(ExtremeAxes(grid, CoordOf(grid, k - 1)))

\* C3 as claimed: for every grid, neighborhoods() returns width * height
\* neighbourhoods in index order, with 3 neighbours at a corner, 5 at an
\* edge and 8 in the interior.
C3_AsClaimed ==
    call.op = "neighborhoods" => (OnePerIndex /\ ThreeFiveEight)

\* C3 amended: for every grid, neighborhoods() returns width * height
\* neighbourhoods in index order; when width >= 2 and height >= 2, a corner
\* has 3 neighbours, an edge 5 and an interior cell 8.
C3_NeighbourCounts ==
    call.op = "neighborhoods" =>
        /\ OnePerIndex
        /\ (grid.m_width >= 2 /\ grid.m_height >= 2) => ThreeFiveEight

\* A query on a 3 x 3 grid: corners, edges and an interior cell.
C3_Witness ==
    /\ call.op = "neighborhoods"
    /\ grid.m_width = 3 /\ grid.m_height = 3
    /\ Len(call.ret[5].m_neighbors) = 8
    /\ Len(call.ret[1].m_neighbors) = 3
    /\ Len(call.ret[2].m_neighbors) = 5

(***************************************************************************)
(* C4                                                                      *)
(***************************************************************************)
\* C4: to_2d maps every index to a coordinate of the grid and to_1d brings
\* it back; to_1d maps every coordinate of the grid to an index and to_2d
\* brings it back.
C4_RoundTrip ==
    /\ \A i \in 0 .. (grid.m_width * grid.m_height - 1) :
          /\ to_2d(grid, i) \in Coords(grid)
          /\ to_1d(grid, to_2d(grid, i)) = i
    /\ \A xy \in Coords(grid) :
          /\ to_1d(grid, xy) \in 0 .. (grid.m_width * grid.m_height - 1)
          /\ to_2d(grid, to_1d(grid, xy)) = xy

\* A non-square grid on which a query has converted every index.
C4_Witness ==
    /\ call.op = "neighborhoods"
    /\ grid.m_width = 4 /\ grid.m_height = 2
    /\ call.ret[8].m_cell.m_location = <<3, 1>>

(***************************************************************************)
(* C5                                                                      *)
(***************************************************************************)
\* C5: an applyTo on a grid with every cell dead leaves every cell dead.
C5_DeadStaysDead ==
    [][ (AllDead(grid) /\ call'.op = "applyTo") => AllDead(grid') ]_vars

\* Two applyTo calls in a row have run and the 3 x 3 grid is all dead.
C5_Witness ==
    /\ call.op = "applyTo"
    /\ grid.m_width = 3 /\ grid.m_height = 3
    /\ AllDead(grid)
    /\ AllDead(applyTo(grid))

(***************************************************************************)
(* C6                                                                      *)
(***************************************************************************)
BlinkerAcross == Pattern(BlinkerSide, {<<2, 1>>, <<2, 2>>, <<2, 3>>})

BlinkerDown == Pattern(BlinkerSide, {<<1, 2>>, <<2, 2>>, <<3, 2>>})

\* C6: an applyTo on the grid alive at (2,1),(2,2),(2,3) gives the grid
\* alive at (1,2),(2,2),(3,2), and an applyTo on that one gives the first
\* again; so from either the grid alternates between the two forever.
C6_BlinkerPeriodTwo ==
    [][ /\ (grid = BlinkerAcross) => (grid' = BlinkerDown)
        /\ (grid = BlinkerDown) => (grid' = BlinkerAcross)
      ]_vars

\* The first pattern, back after applyTo calls.
C6_Witness ==
    /\ call.op = "applyTo"
    /\ grid = BlinkerAcross
    /\ applyTo(grid) = BlinkerDown

(***************************************************************************)
(* C7                                                                      *)
(***************************************************************************)
\* C7: a neighborhoods() query that comes right after activate(c) shows c
\* alive, as the centre of its neighbourhood and in the neighbour list of
\* every adjacent cell; right after deactivate(c) it shows c dead there.
C7_QueryReflectsMutation ==
    [][ /\ (call.op = "activate" /\ call'.op = "neighborhoods")
              => Reports(call'.ret, grid, call.coord, 1)
        /\ (call.op = "deactivate" /\ call'.op = "neighborhoods")
              => Reports(call'.ret, grid, call.coord, 0)
      ]_vars

\* The centre of a 3 x 3 grid has just been activated, and the query that
\* follows shows it alive to its 8 neighbours.
C7_Witness ==
    /\ call.op = "activate"
    /\ call.coord = <<1, 1>>
    /\ grid.m_width = 3 /\ grid.m_height = 3
    /\ Cardinality(Adjacent(grid, call.coord)) = 8
    /\ Reports(neighborhoods(grid), grid, call.coord, 1)

(***************************************************************************)
(* C8                                                                      *)
(***************************************************************************)
\* C8 as claimed: activate, deactivate and value_at with a coordinate
\* outside the grid end in an OutOfRange error, return no cell's value and
\* leave the grid as it was.
C8_AsClaimed ==
    [][ (call'.op \in {"activate", "deactivate", "value_at"}
            /\ call'.coord \notin Coords(grid))
          => /\ call'.outcome = "OutOfRange"
             /\ call'.ret = <<>>
             /\ grid' = grid
      ]_vars

(***************************************************************************)
(* C9                                                                      *)
(***************************************************************************)
\* C9: in every neighbourhood a query returns, the neighbour list holds the
\* cells one step from the centre that lie inside the grid, each once, with
\* its current status, and nothing else: at most 8, never the centre, each
\* with an index inside the array, none further than one step away.
C9_NeighboursInBounds ==
    call.op = "neighborhoods" =>
        \A k \in DOMAIN call.ret :
            LET centre == CoordOf(grid, k - 1)
                list == call.ret[k].m_neighbors
                expected == { n \in { <<centre[1] + d[1], centre[2] + d[2]>> : d \in Steps } :
                                /\ 0 <= n[1] /\ n[1] < grid.m_width
                                /\ 0 <= n[2] /\ n[2] < grid.m_height }
            IN  /\ { list[j].m_location : j \in DOMAIN list } = expected
                /\ Len(list) = Cardinality(expected)
                /\ Len(list) <= 8
                /\ \A j \in DOMAIN list :
                      LET n == list[j].m_location
                      IN  /\ n # centre
                          /\ n \in Coords(grid)
                          /\ IndexOf(grid, n) \in 0 .. (grid.m_width * grid.m_height - 1)
                          /\ Abs(n[1] - centre[1]) <= 1
                          /\ Abs(n[2] - centre[2]) <= 1
                          /\ list[j].m_status = grid.m_contents[IndexOf(grid, n)]

\* A query on a 4 x 2 grid, where the cell of index 1, (0,1), borders index
\* 2, (1,0), only diagonally: its list has 3 neighbours.
C9_Witness ==
    /\ call.op = "neighborhoods"
    /\ grid.m_width = 4 /\ grid.m_height = 2
    /\ Len(call.ret[2].m_neighbors) = 3
    /\ Len(call.ret[4].m_neighbors) = 5

(***************************************************************************)
(* C10                                                                     *)
(***************************************************************************)
\* The cell at xy has status v after the step, and nothing else has changed.
OnlyCellSet(xy, v) ==
    /\ SameShape(grid', grid)
    /\ grid'.m_contents[IndexOf(grid, xy)] = v
    /\ \A i \in DOMAIN grid.m_contents :
          i # IndexOf(grid, xy) => grid'.m_contents[i] = grid.m_contents[i]

\* A call with a coordinate of the grid sets that cell and nothing else; a
\* query changes nothing.
FrameOfStep ==
    /\ (call'.op = "activate" /\ call'.coord \in Coords(grid))
          => OnlyCellSet(call'.coord, 1)
    /\ (call'.op = "deactivate" /\ call'.coord \in Coords(grid))
          => OnlyCellSet(call'.coord, 0)
    /\ (call'.op = "neighborhoods") => (grid' = grid)

\* Making the call just made once more gives the grid as it is now.
RepeatChangesNothing ==
    /\ (call.op = "activate" /\ call.coord \in Coords(grid))
          => (activate(grid, call.coord) = grid)
    /\ (call.op = "deactivate" /\ call.coord \in Coords(grid))
          => (deactivate(grid, call.coord) = grid)

\* C10: activate(c) and deactivate(c) with c in the grid set the cell at c
\* and change nothing else; the same call again changes nothing; and
\* neighborhoods() changes nothing.
C10_FrameAndIdempotence == [][FrameOfStep]_vars /\ []RepeatChangesNothing

\* The last cell of a 2 x 3 grid that was otherwise all dead has been
\* activated.
C10_Witness ==
    /\ call.op = "activate"
    /\ call.coord = <<1, 2>>
    /\ grid.m_width = 2 /\ grid.m_height = 3
    /\ \A i \in DOMAIN grid.m_contents : grid.m_contents[i] = (IF i = 5 THEN 1 ELSE 0)

====
